---- MODULE Spec2Model ----
(***************************************************************************)
(* Model of the Flask gateway in robo.py: POST /api/detect validates an    *)
(* upload, writes a transient upload file, calls the Roboflow workflow     *)
(* through the SDK, normalises the response, tallies the classes, persists *)
(* an image and answers with JSON.                                         *)
(*                                                                         *)
(* Values:                                                                 *)
(*   - a filename is the sequence of its "."-separated segments, so        *)
(*     "a.PNG" is <<"a","PNG">> and "" is <<"">>;                          *)
(*   - a base64 string is a sequence of characters; bytes are sequences    *)
(*     of integers 0..255;                                                 *)
(*   - a JSON value is a record tagged by t: "absent" (key not present),   *)
(*     "null", "int", "str", "list", "dict".                               *)
(***************************************************************************)
EXTENDS Integers, Sequences, FiniteSets, TLC

VARIABLES
    ROBOFLOW_API_KEY,   \* module-level configuration, read from the environment
    clock,              \* datetime.utcnow(), in microseconds
    folder,             \* PROCESSED_FOLDER: path -> bytes
    pc,                 \* per request: "idle", "calling" (run_workflow in flight), "done"
    req,                \* per request: the request as received
    temp_upload_path,   \* per request: the transient upload path, once computed
    calls,              \* per request: number of run_workflow invocations
    written,            \* per request: the paths this request opened for writing
    rf_result,          \* per request: what run_workflow returned or that it raised
    resp                \* per request: the response returned

vars == <<ROBOFLOW_API_KEY, clock, folder, pc, req, temp_upload_path, calls, written,
          rf_result, resp>>

-----------------------------------------------------------------------------
(* Bounds *)

MaxClock == 1       \* clock ticks observed
MaxB64Len == 4      \* longest base64 string upstream returns
MaxPreds == 3       \* longest predictions list upstream returns

Requests == {"r1", "r2"}

-----------------------------------------------------------------------------
(* JSON values *)

Absent == [t |-> "absent"]
JNull == [t |-> "null"]
JInt(n) == [t |-> "int", n |-> n]
JStr(s) == [t |-> "str", s |-> s]
JList(l) == [t |-> "list", l |-> l]

\* Python truthiness of a JSON value
Truthy(v) ==
    CASE v.t = "absent" -> FALSE
      [] v.t = "null" -> FALSE
      [] v.t = "int" -> v.n # 0
      [] v.t = "str" -> Len(v.s) > 0
      [] v.t = "list" -> Len(v.l) > 0
      [] OTHER -> TRUE

\* dict.get(key, default): d[key] holds Absent when the key is not present
Get(d, key, default) == IF d[key] = Absent THEN default ELSE d[key]

-----------------------------------------------------------------------------
(* str.strip(), str.lower(), base64.b64decode, secure_filename *)

IsSpace(c) == c = " "

RECURSIVE LStrip(_)
LStrip(s) == IF Len(s) > 0 /\ IsSpace(s[1]) THEN LStrip(Tail(s)) ELSE s

RECURSIVE RStrip(_)
RStrip(s) == IF Len(s) > 0 /\ IsSpace(s[Len(s)]) THEN RStrip(SubSeq(s, 1, Len(s) - 1)) ELSE s

Strip(s) == RStrip(LStrip(s))

\* str.lower() on the extensions and query values the model uses
Lower(s) ==
    CASE s = "PNG" -> "png"
      [] s = "JPG" -> "jpg"
      [] s = "False" -> "false"
      [] OTHER -> s

\* binascii's table: the 6-bit value of an alphabet character, 64 for any other
B64Val(c) == IF c = "Q" THEN 16 ELSE 64

\* binascii.a2b_base64 in non-strict mode: characters outside the alphabet are
\* skipped, a complete pad sequence ends the input, leftover characters raise
RECURSIVE A2bBase64(_, _, _, _, _, _)
A2bBase64(s, i, quad_pos, leftchar, pads, out) ==
    IF i > Len(s)
    THEN IF quad_pos # 0 THEN [ok |-> FALSE, bytes |-> <<>>] ELSE [ok |-> TRUE, bytes |-> out]
    ELSE LET ch == s[i]
             v == B64Val(ch)
         IN  IF ch = "="
             THEN IF quad_pos >= 2 /\ quad_pos + pads + 1 >= 4
                  THEN [ok |-> TRUE, bytes |-> out]
                  ELSE A2bBase64(s, i + 1, quad_pos, leftchar,
                                 IF quad_pos >= 2 THEN pads + 1 ELSE pads, out)
             ELSE IF v >= 64
             THEN A2bBase64(s, i + 1, quad_pos, leftchar, pads, out)
             ELSE CASE quad_pos = 0 -> A2bBase64(s, i + 1, 1, v, 0, out)
                    [] quad_pos = 1 ->
                        A2bBase64(s, i + 1, 2, v % 16, 0,
                                  Append(out, (leftchar * 4 + (v \div 16)) % 256))
                    [] quad_pos = 2 ->
                        A2bBase64(s, i + 1, 3, v % 4, 0,
                                  Append(out, (leftchar * 16 + (v \div 4)) % 256))
                    [] OTHER ->
                        A2bBase64(s, i + 1, 0, 0, 0,
                                  Append(out, (leftchar * 64 + v) % 256))

\* base64.b64decode(s): ok = FALSE stands for binascii.Error
b64decode(s) == A2bBase64(s, 1, 0, 0, 0, <<>>)

\* werkzeug's secure_filename: path separators and leading dots are dropped
secure_filename(fn) ==
    IF fn[1] = "../a" THEN <<"a">> \o Tail(fn) ELSE fn

-----------------------------------------------------------------------------
(* File validation *)

ALLOWED_EXTENSIONS == {"png", "jpg", "jpeg"}

\* "." in filename and filename.rsplit(".", 1)[1].lower() in ALLOWED_EXTENSIONS
allowed_file(filename) ==
    Len(filename) >= 2 /\ Lower(filename[Len(filename)]) \in ALLOWED_EXTENSIONS

\* a key check that forgets the empty string
ApiKeyMissingNoEmpty(key) == key \in {"None", "REPLACE_ME"}

\* ROBOFLOW_API_KEY in (None, "", "REPLACE_ME")
ApiKeyMissing(key) == key \in {"None", "", "REPLACE_ME"}

-----------------------------------------------------------------------------
(* Response normalisation and aggregation (the try block of detect_image) *)

\* out_img handling: a dict gives its "value", a non-blank str is stripped,
\* anything else gives None
NormalizeImage(first_output) ==
    LET out_img == Get(first_output, "output_image", JNull)
    IN  IF out_img.t = "dict" THEN Get(out_img, "value", JNull)
        ELSE IF out_img.t = "str" /\ Len(Strip(out_img.s)) > 0 THEN JStr(Strip(out_img.s))
        ELSE JNull

\* a normaliser without the final else branch: an other-typed block is kept
NormalizePredictionsNoElse(first_output) ==
    LET predictions_block == Get(first_output, "predictions", [t |-> "dict", predictions |-> Absent])
    IN  IF predictions_block.t = "dict"
        THEN LET p == Get(predictions_block, "predictions", JList(<<>>))
             IN  IF Truthy(p) THEN p ELSE JList(<<>>)
        ELSE predictions_block

\* predictions_block handling: a dict gives its "predictions" (or [] when that
\* is falsy), a list is taken as is, anything else gives []
NormalizePredictions(first_output) ==
    LET predictions_block == Get(first_output, "predictions", [t |-> "dict", predictions |-> Absent])
    IN  IF predictions_block.t = "dict"
        THEN LET p == Get(predictions_block, "predictions", JList(<<>>))
             IN  IF Truthy(p) THEN p ELSE JList(<<>>)
        ELSE IF predictions_block.t = "list" THEN predictions_block
        ELSE JList(<<>>)

\* obj.get("class", "Unknown")
ClassOf(obj) == Get(obj, "class", JStr("Unknown")).s

\* class_counts[cls] = class_counts.get(cls, 0) + 1; a dict keeps insertion order
Bump(class_counts, cls) ==
    IF \E i \in 1..Len(class_counts) : class_counts[i].class = cls
    THEN [i \in 1..Len(class_counts) |->
            IF class_counts[i].class = cls
            THEN [class_counts[i] EXCEPT !.count = @ + 1]
            ELSE class_counts[i]]
    ELSE Append(class_counts, [class |-> cls, count |-> 1])

\* a tally that drops the records without a "class" instead of using "Unknown"
RECURSIVE CountClassesDropUnknown(_, _)
CountClassesDropUnknown(predictions, class_counts) ==
    IF predictions = <<>> THEN class_counts
    ELSE LET obj == Head(predictions)
         IN  CountClassesDropUnknown(Tail(predictions),
                                     IF obj.t = "dict" /\ obj.class # Absent
                                     THEN Bump(class_counts, ClassOf(obj))
                                     ELSE class_counts)

\* for obj in predictions: if isinstance(obj, dict): ...
RECURSIVE CountClasses(_, _)
CountClasses(predictions, class_counts) ==
    IF predictions = <<>> THEN class_counts
    ELSE LET obj == Head(predictions)
         IN  CountClasses(Tail(predictions),
                          IF obj.t = "dict" THEN Bump(class_counts, ClassOf(obj))
                          ELSE class_counts)

\* code-point order of the class labels the model uses
ClassRank(c) == CASE c = "Unknown" -> 0 [] c = "apple" -> 1 [] OTHER -> 2

RECURSIVE InsertSorted(_, _)
InsertSorted(c, sorted) ==
    IF sorted = <<>> THEN <<c>>
    ELSE IF ClassRank(c) <= ClassRank(Head(sorted)) THEN <<c>> \o sorted
    ELSE <<Head(sorted)>> \o InsertSorted(c, Tail(sorted))

\* sorted(list(class_counts.keys()))
RECURSIVE SortedKeys(_)
SortedKeys(class_counts) ==
    IF class_counts = <<>> THEN <<>>
    ELSE InsertSorted(Head(class_counts).class, SortedKeys(Tail(class_counts)))

\* sum(class_counts.values())
RECURSIVE SumCounts(_)
SumCounts(class_counts) ==
    IF class_counts = <<>> THEN 0
    ELSE Head(class_counts).count + SumCounts(Tail(class_counts))

\* a decode step whose failure leaves empty bytes instead of None
ToWriteBytesNoFallback(processed_image_base64) ==
    IF ~Truthy(processed_image_base64) THEN [exc |-> FALSE, none |-> TRUE, bytes |-> <<>>]
    ELSE IF processed_image_base64.t # "str" THEN [exc |-> TRUE, none |-> TRUE, bytes |-> <<>>]
    ELSE IF Len(Strip(processed_image_base64.s)) = 0
    THEN [exc |-> FALSE, none |-> TRUE, bytes |-> <<>>]
    ELSE [exc |-> FALSE, none |-> FALSE, bytes |-> b64decode(processed_image_base64.s).bytes]

\* The bytes to persist: exc when .strip() is called on a non-str, none when
\* there is no annotated image or b64decode raised
ToWriteBytes(processed_image_base64) ==
    IF ~Truthy(processed_image_base64) THEN [exc |-> FALSE, none |-> TRUE, bytes |-> <<>>]
    ELSE IF processed_image_base64.t # "str" THEN [exc |-> TRUE, none |-> TRUE, bytes |-> <<>>]
    ELSE IF Len(Strip(processed_image_base64.s)) = 0
    THEN [exc |-> FALSE, none |-> TRUE, bytes |-> <<>>]
    ELSE LET d == b64decode(processed_image_base64.s)
         IN  IF d.ok THEN [exc |-> FALSE, none |-> FALSE, bytes |-> d.bytes]
             ELSE [exc |-> FALSE, none |-> TRUE, bytes |-> <<>>]

\* a compatibility field that is a string whenever any class was seen
LegacyResultAnyClass(class_counts, total_ingredients, details) ==
    IF Len(class_counts) >= 1
    THEN [kind |-> "str", count |-> class_counts[1].count, class |-> class_counts[1].class]
    ELSE [kind |-> "dict", ingredients |-> total_ingredients, details |-> details]

\* The compatibility field: a string for a single class, a dict otherwise
LegacyResult(class_counts, total_ingredients, details) ==
    IF Len(class_counts) = 1
    THEN [kind |-> "str", count |-> class_counts[1].count, class |-> class_counts[1].class]
    ELSE [kind |-> "dict", ingredients |-> total_ingredients, details |-> details]

ErrorResponse(status, error) == [status |-> status, error |-> error]

NoWrite == [do |-> FALSE, path |-> Absent, bytes |-> <<>>]

\* Lines 131-207: what the handler answers and what it writes for an upstream
\* result, given the outcome wio of the processed-image write
ProcessResponse(rf, filename, file_bytes, include_b64, now, wio) ==
    IF rf.t # "dict"
    THEN [resp |-> ErrorResponse(500, "Error processing Roboflow response"), write |-> NoWrite]
    ELSE LET outputs == Get(rf, "outputs", JList(<<>>))
    IN  IF ~Truthy(outputs) \/ outputs.t # "list"
        THEN [resp |-> ErrorResponse(502, "Unexpected Roboflow response: outputs missing"),
              write |-> NoWrite]
        ELSE LET first_output == outputs.l[1]
        IN  IF first_output.t # "dict"
            THEN [resp |-> ErrorResponse(500, "Error processing Roboflow response"),
                  write |-> NoWrite]
            ELSE LET processed_image_base64 == NormalizeImage(first_output)
                     predictions == NormalizePredictions(first_output)
                     to_write == ToWriteBytes(processed_image_base64)
            IN  IF predictions.t \notin {"list", "str", "dict"} \/ to_write.exc
                THEN [resp |-> ErrorResponse(500, "Error processing Roboflow response"),
                      write |-> NoWrite]
                ELSE LET class_counts ==
                             CountClasses(IF predictions.t = "list" THEN predictions.l ELSE <<>>, <<>>)
                         detected_ingredients == SortedKeys(class_counts)
                         details == class_counts
                         total_ingredients == SumCounts(class_counts)
                         processed_filename == [kind |-> "processed", ts |-> now, name |-> filename]
                         bytes == IF to_write.none THEN file_bytes ELSE to_write.bytes
                IN  IF wio = "open_fail"
                    THEN [resp |-> ErrorResponse(500, "Failed to write processed image"),
                          write |-> NoWrite]
                    ELSE IF wio = "write_fail"
                    THEN [resp |-> ErrorResponse(500, "Failed to write processed image"),
                          write |-> [do |-> TRUE, path |-> processed_filename, bytes |-> <<>>]]
                    ELSE [resp |-> [status |-> 200,
                                    processed_image_url |-> processed_filename,
                                    detected_ingredients |-> detected_ingredients,
                                    ingredients |-> total_ingredients,
                                    details |-> details,
                                    result |-> LegacyResult(class_counts, total_ingredients, details),
                                    processed_image_base64 |->
                                        IF include_b64 THEN processed_image_base64 ELSE Absent],
                          write |-> [do |-> TRUE, path |-> processed_filename, bytes |-> bytes]]

-----------------------------------------------------------------------------
(* The storage folder *)

\* open(path, "wb") then write(bytes): creates or truncates the file
WriteFile(dir, path, bytes) ==
    [p \in DOMAIN dir \cup {path} |-> IF p = path THEN bytes ELSE dir[p]]

\* os.remove(path)
RemoveFile(dir, path) == [p \in DOMAIN dir \ {path} |-> dir[p]]

-----------------------------------------------------------------------------
(* Inputs *)

ApiKeys == {"", "REPLACE_ME", "rf_key"}

NoImage == [present |-> FALSE, filename |-> <<"">>, bytes |-> <<>>]

\* "", "a.png", "../a.png", "b.JPG", "a.txt", "noext"
FileNames == {<<"">>, <<"a", "png">>, <<"../a", "png">>, <<"b", "JPG">>, <<"a", "txt">>, <<"noext">>}

FileBytes == {<<7>>, <<65>>}

Images == {NoImage} \cup
          {[present |-> TRUE, filename |-> fn, bytes |-> b] : fn \in FileNames, b \in FileBytes}

\* the include_base64 query argument; "absent" stands for the default "true"
IncludeArgs == {"absent", "False"}

\* outcome of a file write: open() raises, write() raises after open() created
\* the file, or both succeed
IoOutcomes == {"ok", "open_fail", "write_fail"}

B64Chars == {"Q", "=", "!", " "}
B64Strings == UNION {[1..n -> B64Chars] : n \in 0..MaxB64Len}

ImageDict(v) == [t |-> "dict", value |-> v]
ImageShapes == {Absent, JNull, JInt(5)}
               \cup {JStr(s) : s \in B64Strings}
               \cup {ImageDict(v) : v \in {Absent, JInt(5)} \cup {JStr(s) : s \in B64Strings}}

Detection(c) == [t |-> "dict", class |-> c]
DetectionRecords == {Detection(JStr("apple")), Detection(JStr("egg")), Detection(Absent),
                     JStr(<<"x">>)}
PredictionLists == UNION {[1..n -> DetectionRecords] : n \in 0..MaxPreds}

PredictionsDict(p) == [t |-> "dict", predictions |-> p]
PredictionShapes == {Absent, JNull, JInt(5), JStr(<<"x">>)}
                    \cup {JList(l) : l \in PredictionLists}
                    \cup {PredictionsDict(p) :
                            p \in {Absent, JInt(5), JStr(<<"x">>)} \cup {JList(l) : l \in PredictionLists}}

FirstOutput(img, preds) == [t |-> "dict", output_image |-> img, predictions |-> preds]
Response(outputs) == [t |-> "dict", outputs |-> outputs]

\* one representative of each shape of a field, used while the other field varies
ImageCore == {Absent, JStr(<<"Q", "Q", "=", "=">>), ImageDict(JStr(<<"Q", "Q", "Q", "Q">>)),
              ImageDict(JStr(<<"Q">>))}
PredictionCore == {Absent, JList(<<Detection(JStr("apple"))>>),
                   PredictionsDict(JList(<<Detection(JStr("apple")), Detection(JStr("egg"))>>))}

FirstOutputs ==
    {FirstOutput(img, preds) : img \in ImageShapes, preds \in PredictionCore}
    \cup {FirstOutput(img, preds) : img \in ImageCore, preds \in PredictionShapes}

\* what run_workflow can return: a dict with any shape of "outputs", or a value
\* that is no dict at all
RfResults ==
    {JNull, JList(<<>>), JList(<<FirstOutput(Absent, Absent)>>)}
    \cup {Response(o) : o \in {Absent, JNull, JInt(0), JStr(<<"x">>), JList(<<>>),
                               JList(<<JStr(<<"x">>)>>)}}
    \cup {Response(JList(<<fo>>)) : fo \in FirstOutputs}

RfResultsSmall ==
    {JList(<<>>), Response(Absent), Response(JList(<<>>)),
     Response(JList(<<FirstOutput(JStr(<<"Q", "Q", "=", "=">>), JList(<<Detection(JStr("apple"))>>))>>))}

Raised == [raised |-> TRUE, rf_result |-> JNull]
Returned(v) == [raised |-> FALSE, rf_result |-> v]

\* run_workflow raises (transport failure, non-200 status) or returns a value
Outcomes == {Raised} \cup {Returned(v) : v \in RfResults}
OutcomesSmall == {Raised} \cup {Returned(v) : v \in RfResultsSmall}

-----------------------------------------------------------------------------
(* The state machine *)

NoResponse == [status |-> 0]
NotCalled == [raised |-> FALSE, rf_result |-> Absent]
NoPath == [kind |-> "none", ts |-> 0, name |-> <<"">>]

Init ==
    /\ ROBOFLOW_API_KEY \in ApiKeys
    /\ clock = 0
    /\ folder = <<>>
    /\ pc = [r \in Requests |-> "idle"]
    /\ req = [r \in Requests |-> [image |-> NoImage, include_base64 |-> "absent"]]
    /\ temp_upload_path = [r \in Requests |-> NoPath]
    /\ calls = [r \in Requests |-> 0]
    /\ written = [r \in Requests |-> {}]
    /\ rf_result = [r \in Requests |-> NotCalled]
    /\ resp = [r \in Requests |-> NoResponse]

\* return jsonify(...), status
Return(r, response) ==
    /\ resp' = [resp EXCEPT ![r] = response]
    /\ pc' = [pc EXCEPT ![r] = "done"]

\* Lines 67-114: validation, reading the upload, writing the transient upload
\* file and invoking run_workflow, which then is in flight
Start(r, image, include_base64, read_ok, io) ==
    /\ pc[r] = "idle"
    /\ req' = [req EXCEPT ![r] = [image |-> image, include_base64 |-> include_base64]]
    /\ UNCHANGED <<ROBOFLOW_API_KEY, clock, rf_result>>
    /\ IF ~image.present
       THEN /\ Return(r, ErrorResponse(400, "No image file provided"))
            /\ UNCHANGED <<folder, temp_upload_path, calls, written>>
       ELSE IF ApiKeyMissing(ROBOFLOW_API_KEY)
       THEN /\ Return(r, ErrorResponse(500, "Server misconfigured: set ROBOFLOW_API_KEY"))
            /\ UNCHANGED <<folder, temp_upload_path, calls, written>>
       ELSE IF image.filename = <<"">>
       THEN /\ Return(r, ErrorResponse(400, "Empty filename"))
            /\ UNCHANGED <<folder, temp_upload_path, calls, written>>
       ELSE IF ~allowed_file(image.filename)
       THEN /\ Return(r, ErrorResponse(400, "Unsupported file format. Use PNG/JPG."))
            /\ UNCHANGED <<folder, temp_upload_path, calls, written>>
       ELSE IF ~read_ok
       THEN /\ Return(r, ErrorResponse(500, "Failed to read image"))
            /\ UNCHANGED <<folder, temp_upload_path, calls, written>>
       ELSE LET filename == secure_filename(image.filename)
                path == [kind |-> "upload", ts |-> clock, name |-> filename]
            IN  /\ temp_upload_path' = [temp_upload_path EXCEPT ![r] = path]
                /\ IF io = "open_fail"
                   THEN /\ Return(r, ErrorResponse(500, "Failed to persist upload"))
                        /\ UNCHANGED <<folder, calls, written>>
                   ELSE IF io = "write_fail"
                   THEN /\ folder' = WriteFile(folder, path, <<>>)
                        /\ written' = [written EXCEPT ![r] = @ \cup {path}]
                        /\ Return(r, ErrorResponse(500, "Failed to persist upload"))
                        /\ UNCHANGED calls
                   ELSE /\ folder' = WriteFile(folder, path, image.bytes)
                        /\ written' = [written EXCEPT ![r] = @ \cup {path}]
                        /\ calls' = [calls EXCEPT ![r] = @ + 1]
                        /\ pc' = [pc EXCEPT ![r] = "calling"]
                        /\ UNCHANGED resp

\* Lines 115-207: run_workflow returns or raises, the finally block removes
\* the transient upload (os.remove may raise, which is swallowed), then the
\* response is parsed, the image persisted and the answer built
UpstreamReturn(r, outcomes) ==
    /\ pc[r] = "calling"
    /\ UNCHANGED <<ROBOFLOW_API_KEY, clock, req, temp_upload_path, calls>>
    /\ \E outcome \in outcomes, rm_ok \in BOOLEAN, wio \in IoOutcomes :
        LET path == temp_upload_path[r]
            removed == IF rm_ok /\ path \in DOMAIN folder THEN RemoveFile(folder, path) ELSE folder
            out == IF outcome.raised
                   THEN [resp |-> ErrorResponse(502, "Roboflow error (SDK)"), write |-> NoWrite]
                   ELSE ProcessResponse(outcome.rf_result, path.name, req[r].image.bytes,
                                        Lower(req[r].include_base64) # "false", clock, wio)
        IN  /\ rf_result' = [rf_result EXCEPT ![r] = outcome]
            /\ Return(r, out.resp)
            /\ IF out.write.do
               THEN /\ folder' = WriteFile(removed, out.write.path, out.write.bytes)
                    /\ written' = [written EXCEPT ![r] = @ \cup {out.write.path}]
               ELSE /\ folder' = removed
                    /\ UNCHANGED written

\* time passes
Tick ==
    /\ clock < MaxClock
    /\ clock' = clock + 1
    /\ UNCHANGED <<ROBOFLOW_API_KEY, folder, pc, req, temp_upload_path, calls, written,
                   rf_result, resp>>

\* concurrent requests, a few upstream results
Next ==
    \/ \E r \in Requests, image \in Images, io \in IoOutcomes, read_ok \in BOOLEAN :
          Start(r, image, "absent", read_ok, io)
    \/ \E r \in Requests : UpstreamReturn(r, OutcomesSmall)
    \/ Tick

Spec == Init /\ [][Next]_vars

\* one request, every shape of the upstream result
NextShapes ==
    \/ \E image \in Images, include_base64 \in IncludeArgs, io \in IoOutcomes, read_ok \in BOOLEAN :
          Start("r1", image, include_base64, read_ok, io)
    \/ UpstreamReturn("r1", Outcomes)

SpecShapes == Init /\ [][NextShapes]_vars

-----------------------------------------------------------------------------
(* Vocabulary of the properties *)

Answered(r) == pc[r] = "done"
KeyUnset == ROBOFLOW_API_KEY \in {"", "REPLACE_ME"}

\* run_workflow returned a value for r and r has answered
GotResult(r) == pc[r] = "done" /\ calls[r] > 0 /\ ~rf_result[r].raised
Rf(r) == rf_result[r].rf_result

\* top-level "outputs" absent, not a list, or an empty list
OutputsMissing(v) == v.t # "dict" \/ v.outputs.t # "list" \/ v.outputs.l = <<>>
HasFirstOutput(v) ==
    /\ v.t = "dict"
    /\ v.outputs.t = "list"
    /\ Len(v.outputs.l) > 0
    /\ v.outputs.l[1].t = "dict"
First(r) == Rf(r).outputs.l[1]

\* the documented shapes of the two fields of the first output
DocumentedImage(v) ==
    \/ v.t \in {"absent", "null", "str"}
    \/ v.t = "dict" /\ v.value.t \in {"absent", "str"}
DocumentedPredictions(v) ==
    \/ v.t \in {"absent", "null", "int", "str", "list"}
    \/ v.t = "dict" /\ v.predictions.t \in {"absent", "list"}

\* the annotated image string of the first output, or <<>> when there is none
ImageString(v) ==
    IF v.t = "str" THEN v.s
    ELSE IF v.t = "dict" /\ v.value.t = "str" THEN v.value.s
    ELSE <<>>
\* absent, empty (or blank), or a string on which b64decode raises
ImageUnusable(v) ==
    /\ DocumentedImage(v)
    /\ \/ Len(Strip(ImageString(v))) = 0
       \/ ~b64decode(ImageString(v)).ok

\* the detection records upstream returned, as the handler tallies them
PredictionList(r) ==
    LET p == NormalizePredictions(First(r)) IN IF p.t = "list" THEN p.l ELSE <<>>
IsRecord(obj) == obj.t = "dict"
LabelOf(obj) == IF obj.class.t = "str" THEN obj.class.s ELSE "Unknown"
Labels(l) == {LabelOf(l[i]) : i \in {j \in 1..Len(l) : IsRecord(l[j])}}
Occurrences(l, c) == Cardinality({i \in 1..Len(l) : IsRecord(l[i]) /\ LabelOf(l[i]) = c})

WriteFailed(r) == resp[r].status = 500 /\ resp[r].error = "Failed to write processed image"

-----------------------------------------------------------------------------
(* Properties *)

\* C1, as stated: every request handled while the API key is unset, empty or
\* the placeholder is answered 500, with no upstream call and no file created.
C1_EveryRequest500 ==
    \A r \in Requests :
        KeyUnset /\ Answered(r) =>
            resp[r].status = 500 /\ calls[r] = 0 /\ written[r] = {}

\* C1, amended: while the API key is unset, empty or the placeholder, no
\* request ever makes an upstream call or creates a file, and every request
\* that carries an image part is answered 500.
C1_RequestWithImage500 ==
    \A r \in Requests :
        KeyUnset =>
            /\ calls[r] = 0
            /\ written[r] = {}
            /\ (Answered(r) /\ req[r].image.present => resp[r].status = 500)

C1_Witness ==
    \E r \in Requests :
        /\ KeyUnset /\ Answered(r)
        /\ req[r].image.present /\ req[r].image.filename = <<"a", "png">>
        /\ resp[r].status = 500

\* C2: a request with no image part, an empty filename or an extension outside
\* the allow-list is answered 400 whatever the configuration, with no upstream
\* call and no file written.
C2_UploadChecks400 ==
    \A r \in Requests :
        Answered(r) /\ (\/ ~req[r].image.present
                        \/ req[r].image.filename = <<"">>
                        \/ ~allowed_file(req[r].image.filename)) =>
            resp[r].status = 400 /\ calls[r] = 0 /\ written[r] = {}

\* C3: when upstream returns a value whose top-level outputs is absent, not a
\* list or empty, the answer is 502 and no file created by the request is left
\* in the storage folder.
C3_MalformedOutputs502 ==
    \A r \in Requests :
        GotResult(r) /\ OutputsMissing(Rf(r)) =>
            resp[r].status = 502 /\ written[r] \cap DOMAIN folder = {}

\* C4: in every 200 response the legacy result is the string "{count} {class}"
\* exactly when the predictions hold one distinct class, and otherwise an
\* object repeating the response's ingredients and details.
C4_LegacyResult ==
    \A r \in Requests :
        Answered(r) /\ resp[r].status = 200 =>
            LET l == PredictionList(r)
                result == resp[r].result
            IN  /\ result.kind = "str" <=> Cardinality(Labels(l)) = 1
                /\ result.kind = "str" =>
                       result.class \in Labels(l) /\ result.count = Occurrences(l, result.class)
                /\ result.kind # "str" =>
                       /\ result.kind = "dict"
                       /\ result.ingredients = resp[r].ingredients
                       /\ result.details = resp[r].details

C4_Witness ==
    \E r \in Requests :
        /\ Answered(r) /\ resp[r].status = 200
        /\ Len(PredictionList(r)) = 3
        /\ resp[r].result.kind = "str" /\ resp[r].result.count = 2

\* C5, as stated: the counts of details sum to ingredients, which is the number
\* of prediction records that have a class field.
C5_TotalIsRecordsWithClass ==
    \A r \in Requests :
        Answered(r) /\ resp[r].status = 200 =>
            LET l == PredictionList(r)
            IN  /\ SumCounts(resp[r].details) = resp[r].ingredients
                /\ resp[r].ingredients =
                       Cardinality({i \in 1..Len(l) : IsRecord(l[i]) /\ l[i].class # Absent})

\* C5, amended: the counts of details sum to ingredients, which is the number
\* of prediction records that are objects, with or without a class field (the
\* ones without are counted under "Unknown").
C5_TotalIsRecords ==
    \A r \in Requests :
        Answered(r) /\ resp[r].status = 200 =>
            LET l == PredictionList(r)
            IN  /\ SumCounts(resp[r].details) = resp[r].ingredients
                /\ resp[r].ingredients = Cardinality({i \in 1..Len(l) : IsRecord(l[i])})
                /\ \A i \in 1..Len(resp[r].details) :
                       resp[r].details[i].count = Occurrences(l, resp[r].details[i].class)

C5_Witness ==
    \E r \in Requests :
        /\ Answered(r) /\ resp[r].status = 200
        /\ resp[r].ingredients = 3
        /\ \E i \in 1..Len(resp[r].details) :
               resp[r].details[i].class = "Unknown" /\ resp[r].details[i].count = 2

\* C6: when the annotated image is absent, empty or raises in decoding, the
\* request still ends 200 unless the storage write itself fails, and the file
\* under the processed name holds exactly the uploaded bytes.
C6_FallbackToUpload ==
    \A r \in Requests :
        /\ GotResult(r) /\ HasFirstOutput(Rf(r))
        /\ ImageUnusable(First(r).output_image)
        /\ DocumentedPredictions(First(r).predictions)
        =>  /\ resp[r].status = 200 \/ WriteFailed(r)
            /\ resp[r].status = 200 =>
                   /\ resp[r].processed_image_url \in DOMAIN folder
                   /\ folder[resp[r].processed_image_url] = req[r].image.bytes

C6_Witness ==
    \E r \in Requests :
        /\ GotResult(r) /\ HasFirstOutput(Rf(r))
        /\ First(r).output_image = JStr(<<"Q", "Q", "=">>)
        /\ resp[r].status = 200
        /\ folder[resp[r].processed_image_url] = <<7>>

\* C7: for an upstream result with a non-empty outputs list whose first output
\* has the documented shapes, normalisation never ends in an error: the answer
\* is 200 unless the storage write fails; and the malformed-response answer is
\* given only for absent or empty outputs.
C7_NormalizerTotal ==
    \A r \in Requests :
        /\ (/\ GotResult(r) /\ HasFirstOutput(Rf(r))
            /\ DocumentedImage(First(r).output_image)
            /\ DocumentedPredictions(First(r).predictions)
            => resp[r].status = 200 \/ WriteFailed(r))
        /\ (GotResult(r) /\ resp[r].status = 502 => OutputsMissing(Rf(r)))

C7_Witness ==
    \E r \in Requests :
        /\ GotResult(r) /\ HasFirstOutput(Rf(r))
        /\ First(r).output_image.t = "str"
        /\ First(r).predictions = JInt(5)
        /\ resp[r].status = 200

\* C8: the transient upload file a request created no longer exists once the
\* request has returned, on every exit path.
C8_TransientRemoved ==
    \A r \in Requests :
        Answered(r) /\ temp_upload_path[r] \in written[r] =>
            temp_upload_path[r] \notin DOMAIN folder

\* C9: a request ends with the upstream error only after all 3 attempts failed.
C9_ThreeAttempts ==
    \A r \in Requests :
        Answered(r) /\ calls[r] > 0 /\ rf_result[r].raised => calls[r] = 3

\* C10: no two requests write to the same path of the storage folder.
C10_NoSharedPath ==
    \A r1, r2 \in Requests : r1 # r2 => written[r1] \cap written[r2] = {}

====
